---- MODULE Spec2Model ----
(***************************************************************************)
(* Iterated Local Search engine of the constraint-solver repository:       *)
(* History (best set + recent deque / tabu lookup), LocalSearch::execute   *)
(* and IteratedLocalSearch::execute_round.                                 *)
(***************************************************************************)
EXTENDS Integers, Sequences, FiniteSets, TLC

\* ------------------------------------------------------------------ bounds
NumSolutions == 3
MaxScore == 3
MaxBestCapacity == 2
MaxAllCapacity == 2
MaxExpiry == 2
MaxHistoryIterations == 3
MaxHistoryScore == 1
MaxMoves == 2
MaxWindow == 2
MaxLsIterations == 2
MaxAllow == 2
MaxIlsIterations == 2
MaxIlsScore == 2
MaxRounds == 3
MaxBoardSize == 4
MaxDay == 4
NumEmployees == 2

\* ------------------------------------------------------- program constants
RestartInterval == 50

\* ------------------------------------------------------------ host types
Solutions == 0 .. (NumSolutions - 1)
Scores == 0 .. MaxScore

ScoredSolution == [score : Scores, solution : Solutions]

ScoredSolution_new(solution, score) == [score |-> score, solution |-> solution]

\* Score::is_best of the reference domain: zero conflicts.
is_best(score) == score = 0

\* derived Ord of ScoredSolution: lexicographic on (score, solution)
ScoredSolution_lt(a, b) ==
    \/ a.score < b.score
    \/ a.score = b.score /\ a.solution < b.solution

\* BTreeSet iteration: first (least) and last (greatest) member
BTreeFirst(set) == CHOOSE a \in set : \A b \in set : a = b \/ ScoredSolution_lt(a, b)
BTreeLast(set) == CHOOSE a \in set : \A b \in set : a = b \/ ScoredSolution_lt(b, a)

\* The host scorers considered.  Every scorer is, up to renaming the solutions
\* by their rank in the (score, solution) order, a non-decreasing one, and the
\* renaming preserves equality of solutions and the derived Ord of
\* ScoredSolution, the only two things the engine uses.
Scorers ==
    {f \in [Solutions -> Scores] : \A a, b \in Solutions : a <= b => f[a] <= f[b]}

SeqsUpTo(S, n) == UNION {[1 .. k -> S] : k \in 0 .. n}

\* ---------------------------------------------------------------- History
ScoredSolutionAndIterationAdded(scored_solution, iteration) ==
    [scored_solution |-> scored_solution, iteration |-> iteration]

History_new(best_solutions_capacity, all_solutions_capacity, all_solution_iteration_expiry) ==
    [best_solutions |-> {},
     best_solutions_capacity |-> best_solutions_capacity,
     all_solutions |-> <<>>,
     all_solutions_capacity |-> all_solutions_capacity,
     all_solutions_lookup |-> {},
     all_solution_iteration_expiry |-> all_solution_iteration_expiry,
     iteration_count |-> 0]

\* VecDeque: index 1 is the front, index Len is the back.
pop_back(h) ==
    [h EXCEPT !.all_solutions = SubSeq(@, 1, Len(@) - 1)]

RECURSIVE _pop_solution_for_size(_)
_pop_solution_for_size(h) ==
    IF Len(h.all_solutions) > h.all_solutions_capacity
    THEN LET solution == h.all_solutions[Len(h.all_solutions)]
         IN _pop_solution_for_size(
                [pop_back(h) EXCEPT !.all_solutions_lookup =
                     @ \ {solution.scored_solution.solution}])
    ELSE h

RECURSIVE _pop_solution_for_age(_)
_pop_solution_for_age(h) ==
    IF Len(h.all_solutions) > 0
    THEN LET solution == h.all_solutions[Len(h.all_solutions)]
             inner_solution == solution.scored_solution.solution
         IN IF solution.iteration + h.all_solution_iteration_expiry >= h.iteration_count
            THEN _pop_solution_for_age(
                     pop_back([h EXCEPT !.all_solutions_lookup = @ \ {inner_solution}]))
            ELSE h
    ELSE h

\* mutant: the recorded solution is also entered into the best set
_add_solution_into_best(h, solution) ==
    LET h1 == _pop_solution_for_size(h)
    IN [h1 EXCEPT
          !.all_solutions =
              <<ScoredSolutionAndIterationAdded(solution, h1.iteration_count)>> \o @,
          !.all_solutions_lookup = @ \cup {solution.solution},
          !.best_solutions = @ \cup {solution}]

_add_solution(h, solution) ==
    LET h1 == _pop_solution_for_size(h)
    IN [h1 EXCEPT
          !.all_solutions =
              <<ScoredSolutionAndIterationAdded(solution, h1.iteration_count)>> \o @,
          !.all_solutions_lookup = @ \cup {solution.solution}]

\* mutant: the contains test is skipped and every call pushes an entry
seen_solution_always_adds(h, solution) ==
    LET h1 == [h EXCEPT !.iteration_count = @ + 1]
        h2 == _pop_solution_for_age(h1)
    IN _add_solution(h2, solution)

seen_solution(h, solution) ==
    LET h1 == [h EXCEPT !.iteration_count = @ + 1]
        h2 == _pop_solution_for_age(h1)
    IN IF solution.solution \in h2.all_solutions_lookup
       THEN h2
       ELSE _add_solution(h2, solution)

is_solution_tabu(h, solution) == solution \in h.all_solutions_lookup

is_best_solution(h, solution) == solution \in h.best_solutions

\* `self.best_solutions.iter().next_back().unwrap()` on an empty set
local_search_chose_solution_panics(h) ==
    /\ ~(Cardinality(h.best_solutions) < h.best_solutions_capacity)
    /\ h.best_solutions = {}

\* mutant: the admission test of a full set is inverted (>= for <=)
local_search_chose_solution_inverted(h, solution) ==
    IF Cardinality(h.best_solutions) < h.best_solutions_capacity
    THEN [h EXCEPT !.best_solutions = @ \cup {solution}]
    ELSE LET worst_solution == BTreeLast(h.best_solutions)
         IN IF solution.score >= worst_solution.score
            THEN [h EXCEPT !.best_solutions = (@ \ {worst_solution}) \cup {solution}]
            ELSE h

\* mutant: a full set admits the candidate without evicting the worst member
local_search_chose_solution_no_evict(h, solution) ==
    IF Cardinality(h.best_solutions) < h.best_solutions_capacity
    THEN [h EXCEPT !.best_solutions = @ \cup {solution}]
    ELSE LET worst_solution == BTreeLast(h.best_solutions)
         IN IF solution.score <= worst_solution.score
            THEN [h EXCEPT !.best_solutions = @ \cup {solution}]
            ELSE h

\* mutant: a full set admits only a candidate strictly better than its worst
local_search_chose_solution_strict(h, solution) ==
    IF Cardinality(h.best_solutions) < h.best_solutions_capacity
    THEN [h EXCEPT !.best_solutions = @ \cup {solution}]
    ELSE LET worst_solution == BTreeLast(h.best_solutions)
         IN IF solution.score < worst_solution.score
            THEN [h EXCEPT !.best_solutions = (@ \ {worst_solution}) \cup {solution}]
            ELSE h

\* mutant: a full set evicts its first (least) member instead of its last
local_search_chose_solution_evicts_best(h, solution) ==
    IF Cardinality(h.best_solutions) < h.best_solutions_capacity
    THEN [h EXCEPT !.best_solutions = @ \cup {solution}]
    ELSE LET worst_solution == BTreeLast(h.best_solutions)
         IN IF solution.score <= worst_solution.score
            THEN [h EXCEPT !.best_solutions =
                             (@ \ {BTreeFirst(h.best_solutions)}) \cup {solution}]
            ELSE h

local_search_chose_solution(h, solution) ==
    IF Cardinality(h.best_solutions) < h.best_solutions_capacity
    THEN [h EXCEPT !.best_solutions = @ \cup {solution}]
    ELSE LET worst_solution == BTreeLast(h.best_solutions)
         IN IF solution.score <= worst_solution.score
            THEN [h EXCEPT !.best_solutions = (@ \ {worst_solution}) \cup {solution}]
            ELSE h

\* Option results: None is the empty set, Some(x) is {x}.
get_random_best_solution(h) ==
    IF h.best_solutions = {} THEN {{}} ELSE {{b} : b \in h.best_solutions}

get_best(h) ==
    IF h.best_solutions = {} THEN {} ELSE {BTreeFirst(h.best_solutions)}

\* mutant: clear forgets the lookup set
clear_keeps_lookup(h) ==
    [h EXCEPT !.all_solutions = <<>>,
              !.best_solutions = {}]

clear(h) ==
    [h EXCEPT !.all_solutions = <<>>,
              !.all_solutions_lookup = {},
              !.best_solutions = {}]

\* ------------------------------------------------------------------ state
VARIABLES
    pc,                            \* "idle" | "ls" | "ls_done" | "panicked"
    solution_score_calculator,     \* the host scorer: Solutions -> Scores
    iteration,                     \* IteratedLocalSearch.iteration
    max_iterations,                \* IteratedLocalSearch.max_iterations
    max_allow_no_improvement_for,  \* IteratedLocalSearch.max_allow_no_improvement_for
    rng,                           \* IteratedLocalSearch.rng: stream position
    current,                       \* IteratedLocalSearch.current
    history,                       \* IteratedLocalSearch.history
    local_search,                  \* IteratedLocalSearch.local_search (LocalSearch struct)
    execute,                       \* locals of the running LocalSearch::execute call
    last_call,                     \* observation: the last operation that completed
    rounds_called,                 \* observation: number of execute_round calls made
    age_popped,                    \* observation: entries the last _pop_solution_for_age removed
    seen_at,                       \* observation: iteration_count of the last seen_solution(s) per solution
    size_displaced,                \* observation: solutions removed by _pop_solution_for_size
    initial_solution,              \* observation: the scored solution IteratedLocalSearch::new stored in `current`
    ls_returned,                   \* observation: what LocalSearch::execute returned to execute_round so far
    example                        \* the call in progress in an example domain (N-Queens, employee scheduling)

ilsVars == <<iteration, max_iterations, max_allow_no_improvement_for, rng, current>>
lsVars == <<local_search, execute>>
obsVars == <<rounds_called, age_popped, seen_at, size_displaced, initial_solution, ls_returned, example>>
vars == <<pc, solution_score_calculator, iteration, max_iterations,
          max_allow_no_improvement_for, rng, current, history, local_search,
          execute, last_call, rounds_called, age_popped, seen_at, size_displaced,
          initial_solution, ls_returned, example>>

get_scored_solution(solution) ==
    ScoredSolution_new(solution, solution_score_calculator[solution])

NoCall == [op |-> "none", flag |-> FALSE]

\* no example domain is plugged in
NoExample == [op |-> "none"]

\* no LocalSearch::execute call is running: its locals do not exist
ExecuteIdle ==
    [start |-> 0, allow_no_improvement_for |-> 0,
     current_solution |-> ScoredSolution_new(0, 0),
     best_solution |-> ScoredSolution_new(0, 0),
     no_improvement_for |-> 0, current_iteration |-> 0,
     neighborhood |-> <<>>, result |-> {}, visited |-> {}, recorded |-> 0,
     moves |-> <<>>, position |-> 0]

LocalSearch_new(ls_max_iterations, window_size, best_capacity, all_capacity, expiry) ==
    [max_iterations |-> ls_max_iterations,
     window_size |-> window_size,
     history |-> History_new(best_capacity, all_capacity, expiry),
     rng |-> 0]

\* -------------------------------------------- History driven through its API
InitHistory ==
    /\ pc = "idle"
    /\ solution_score_calculator = [s \in Solutions |-> 0]
    /\ iteration = 0
    /\ max_iterations = 0
    /\ max_allow_no_improvement_for = 0
    /\ rng = 0
    /\ current = ScoredSolution_new(0, 0)
    /\ \E bc \in 0 .. MaxBestCapacity, ac \in 0 .. MaxAllCapacity, ex \in 0 .. MaxExpiry :
           history = History_new(bc, ac, ex)
    /\ local_search = LocalSearch_new(0, 0, 0, 0, 0)
    /\ execute = ExecuteIdle
    /\ last_call = NoCall
    /\ rounds_called = 0
    /\ age_popped = <<>>
    /\ seen_at = [s \in Solutions |-> 0]
    /\ size_displaced = {}
    /\ initial_solution = current
    /\ example = NoExample
    /\ ls_returned = {}

\* scored solutions handed to the History API
HistoryInputs == [score : 0 .. MaxHistoryScore, solution : Solutions]

\* entries removed from the back of `before` to obtain `after`
PoppedBetween(before, after) ==
    SubSeq(before.all_solutions, Len(after.all_solutions) + 1, Len(before.all_solutions))

SeqRange(seq) == {seq[i] : i \in 1 .. Len(seq)}

HistorySeenSolution ==
    /\ pc = "idle"
    /\ history.iteration_count < MaxHistoryIterations
    /\ \E solution \in HistoryInputs :
          LET h1 == [history EXCEPT !.iteration_count = @ + 1]
              h2 == _pop_solution_for_age(h1)
              h3 == _pop_solution_for_size(h2)
              added == solution.solution \notin h2.all_solutions_lookup
          IN /\ history' = seen_solution(history, solution)
             /\ age_popped' = PoppedBetween(h1, h2)
             /\ seen_at' = [seen_at EXCEPT ![solution.solution] = h1.iteration_count]
             /\ size_displaced' =
                   IF added
                   THEN (size_displaced
                           \cup {e.scored_solution.solution : e \in SeqRange(PoppedBetween(h2, h3))})
                        \ {solution.solution}
                   ELSE size_displaced
             /\ last_call' = [op |-> "seen_solution", flag |-> added]
             /\ rounds_called' = rounds_called
    /\ UNCHANGED <<pc, solution_score_calculator, ilsVars, lsVars,
                   initial_solution, ls_returned, example>>

HistoryLocalSearchChoseSolution ==
    /\ pc = "idle"
    /\ \E solution \in HistoryInputs :
          IF local_search_chose_solution_panics(history)
          THEN /\ pc' = "panicked"
               /\ UNCHANGED <<history, last_call>>
          ELSE /\ history' = local_search_chose_solution(history, solution)
               /\ last_call' = [op |-> "local_search_chose_solution",
                                flag |-> ~(Cardinality(history.best_solutions)
                                             < history.best_solutions_capacity)]
               /\ pc' = pc
    /\ UNCHANGED <<solution_score_calculator, ilsVars, lsVars, obsVars>>

HistoryClear ==
    /\ pc = "idle"
    /\ history' = clear(history)
    /\ last_call' = [op |-> "clear", flag |-> FALSE]
    /\ rounds_called' = rounds_called
    /\ age_popped' = <<>>
    /\ seen_at' = [s \in Solutions |-> 0]
    /\ size_displaced' = {}
    /\ UNCHANGED <<pc, solution_score_calculator, ilsVars, lsVars,
                   initial_solution, ls_returned, example>>

NextHistory ==
    \/ HistorySeenSolution
    \/ HistoryLocalSearchChoseSolution
    \/ HistoryClear

SpecHistory == InitHistory /\ [][NextHistory]_vars

\* ------------------------------------------------------------ LocalSearch
\* Vec::sort on a vector of ScoredSolution (insertion sort by the derived Ord)
RECURSIVE InsertSorted(_, _)
InsertSorted(seq, x) ==
    IF seq = <<>> THEN <<x>>
    ELSE IF ScoredSolution_lt(x, Head(seq)) THEN <<x>> \o seq
    ELSE <<Head(seq)>> \o InsertSorted(Tail(seq), x)

RECURSIVE sort(_)
sort(seq) ==
    IF seq = <<>> THEN <<>> ELSE InsertSorted(sort(Tail(seq)), Head(seq))

take(seq, n) == SubSeq(seq, 1, IF Len(seq) < n THEN Len(seq) ELSE n)

\* mutant: the tabu filter is missing from the iterator chain
Neighborhood_unfiltered(h, moves, window_size) ==
    LET taken == take(moves, window_size)
    IN sort([i \in 1 .. Len(taken) |-> get_scored_solution(taken[i])])

\* mutant: the collected neighbours are left in the order of emission
Neighborhood_unsorted(h, moves, window_size) ==
    LET filtered == SelectSeq(moves, LAMBDA solution : ~is_solution_tabu(h, solution))
        taken == take(filtered, window_size)
    IN [i \in 1 .. Len(taken) |-> get_scored_solution(taken[i])]

\* the iterator chain filter(!tabu).map(score).take(window_size).collect(), then sort
Neighborhood(h, moves, window_size) ==
    LET filtered == SelectSeq(moves, LAMBDA solution : ~is_solution_tabu(h, solution))
        taken == take(filtered, window_size)
    IN sort([i \in 1 .. Len(taken) |-> get_scored_solution(taken[i])])

\* mutant: the range of the for loop is inclusive (0..=max_iterations)
for_loop_has_next_inclusive(current_iteration) ==
    current_iteration <= local_search.max_iterations

\* `for _ in 0..self.max_iterations`: the range still yields a value
for_loop_has_next(current_iteration) ==
    current_iteration < local_search.max_iterations

\* mutant: the test for the best possible score is missing
found_best_never(current_solution) == FALSE

\* `if current_solution.score.is_best()` at the top of the loop body
found_best(current_solution) == is_best(current_solution.score)

\* mutant: best_solution starts from an unscored (zero) value
ExecuteEnter_best_unscored(start, allow_no_improvement_for) ==
    [start |-> start,
     allow_no_improvement_for |-> allow_no_improvement_for,
     current_solution |-> get_scored_solution(start),
     best_solution |-> ScoredSolution_new(start, 0),
     no_improvement_for |-> 0,
     current_iteration |-> 0,
     neighborhood |-> <<>>,
     result |-> IF ~for_loop_has_next(0)
                THEN {ScoredSolution_new(start, 0)} ELSE {},
     visited |-> {get_scored_solution(start)},
     recorded |-> 0,
     moves |-> <<>>, position |-> 0]

\* lines 306-308 of LocalSearch::execute: the locals before the loop; `visited`
\* collects the values of current_solution, `recorded` counts the
\* seen_solution calls of this descent
ExecuteEnter(start, allow_no_improvement_for) ==
    [start |-> start,
     allow_no_improvement_for |-> allow_no_improvement_for,
     current_solution |-> get_scored_solution(start),
     best_solution |-> get_scored_solution(start),
     no_improvement_for |-> 0,
     current_iteration |-> 0,
     neighborhood |-> <<>>,
     result |-> IF ~for_loop_has_next(0)
                THEN {get_scored_solution(start)} ELSE {},
     visited |-> {get_scored_solution(start)},
     recorded |-> 0,
     moves |-> <<>>, position |-> 0]

\* mutant: an improving step leaves no_improvement_for as it is
LSDecide_no_reset(neighborhood) ==
    IF neighborhood # <<>>
    THEN LET current_solution == execute.current_solution
             neighborhood_best == Head(neighborhood)
             improved == neighborhood_best.score < current_solution.score
             no_improvement_for ==
                 IF improved THEN execute.no_improvement_for
                 ELSE execute.no_improvement_for + 1
             best_solution ==
                 IF improved THEN neighborhood_best ELSE execute.best_solution
             stop == ~improved /\ no_improvement_for >= execute.allow_no_improvement_for
             exhausted == ~for_loop_has_next(execute.current_iteration + 1)
         IN /\ execute' =
                  [execute EXCEPT
                     !.neighborhood = neighborhood,
                     !.best_solution = best_solution,
                     !.no_improvement_for = no_improvement_for,
                     !.current_solution = IF stop THEN @ ELSE neighborhood_best,
                     !.visited = IF stop THEN @ ELSE @ \cup {neighborhood_best},
                     !.current_iteration = IF stop THEN @ ELSE @ + 1,
                     !.recorded = execute.current_iteration + 1,
                     !.result = IF stop \/ exhausted THEN {best_solution} ELSE {}]
            /\ pc' = IF stop \/ exhausted THEN "ls_done" ELSE "ls"
    ELSE /\ execute' = [execute EXCEPT
                          !.neighborhood = neighborhood,
                          !.recorded = execute.current_iteration + 1,
                          !.result = {execute.best_solution}]
         /\ pc' = "ls_done"

\* mutant: the descent stops only when the count exceeds allow_no_improvement_for
LSDecide_stops_late(neighborhood) ==
    IF neighborhood # <<>>
    THEN LET current_solution == execute.current_solution
             neighborhood_best == Head(neighborhood)
             improved == neighborhood_best.score < current_solution.score
             no_improvement_for ==
                 IF improved THEN 0 ELSE execute.no_improvement_for + 1
             best_solution ==
                 IF improved THEN neighborhood_best ELSE execute.best_solution
             stop == ~improved /\ no_improvement_for > execute.allow_no_improvement_for
             exhausted == ~for_loop_has_next(execute.current_iteration + 1)
         IN /\ execute' =
                  [execute EXCEPT
                     !.neighborhood = neighborhood,
                     !.best_solution = best_solution,
                     !.no_improvement_for = no_improvement_for,
                     !.current_solution = IF stop THEN @ ELSE neighborhood_best,
                     !.visited = IF stop THEN @ ELSE @ \cup {neighborhood_best},
                     !.current_iteration = IF stop THEN @ ELSE @ + 1,
                     !.recorded = execute.current_iteration + 1,
                     !.result = IF stop \/ exhausted THEN {best_solution} ELSE {}]
            /\ pc' = IF stop \/ exhausted THEN "ls_done" ELSE "ls"
    ELSE /\ execute' = [execute EXCEPT
                          !.neighborhood = neighborhood,
                          !.recorded = execute.current_iteration + 1,
                          !.result = {execute.best_solution}]
         /\ pc' = "ls_done"

\* lines 324-338 of LocalSearch::execute: the step taken on the sorted neighborhood
LSDecide(neighborhood) ==
    IF neighborhood # <<>>
    THEN LET current_solution == execute.current_solution
             neighborhood_best == Head(neighborhood)
             improved == neighborhood_best.score < current_solution.score
             no_improvement_for ==
                 IF improved THEN 0 ELSE execute.no_improvement_for + 1
             best_solution ==
                 IF improved THEN neighborhood_best ELSE execute.best_solution
             stop == ~improved /\ no_improvement_for >= execute.allow_no_improvement_for
             exhausted == ~for_loop_has_next(execute.current_iteration + 1)
         IN /\ execute' =
                  [execute EXCEPT
                     !.neighborhood = neighborhood,
                     !.best_solution = best_solution,
                     !.no_improvement_for = no_improvement_for,
                     !.current_solution = IF stop THEN @ ELSE neighborhood_best,
                     !.visited = IF stop THEN @ ELSE @ \cup {neighborhood_best},
                     !.current_iteration = IF stop THEN @ ELSE @ + 1,
                     !.recorded = execute.current_iteration + 1,
                     !.result = IF stop \/ exhausted THEN {best_solution} ELSE {}]
            /\ pc' = IF stop \/ exhausted THEN "ls_done" ELSE "ls"
    ELSE /\ execute' = [execute EXCEPT
                          !.neighborhood = neighborhood,
                          !.recorded = execute.current_iteration + 1,
                          !.result = {execute.best_solution}]
         /\ pc' = "ls_done"

\* one pass through the body of the for loop of LocalSearch::execute
LSStep ==
    /\ pc = "ls"
    /\ for_loop_has_next(execute.current_iteration)
    /\ local_search.history.iteration_count < MaxHistoryIterations
    /\ LET current_solution == execute.current_solution
           h1 == [local_search.history EXCEPT !.iteration_count = @ + 1]
           h == seen_solution(local_search.history, current_solution)
       IN /\ age_popped' = PoppedBetween(h1, _pop_solution_for_age(h1))
          /\ IF found_best(current_solution)
             THEN /\ local_search' = [local_search EXCEPT !.history = h]
                  /\ execute' = [execute EXCEPT
                                   !.recorded = execute.current_iteration + 1,
                                   !.result = {current_solution}]
                  /\ pc' = "ls_done"
             ELSE \E moves \in SeqsUpTo(Solutions, MaxMoves) :
                    /\ local_search' = [local_search EXCEPT !.history = h, !.rng = @ + 1]
                    /\ LSDecide(Neighborhood(h, moves, local_search.window_size))
    /\ UNCHANGED <<solution_score_calculator, ilsVars, history, last_call,
                   rounds_called, seen_at, size_displaced, initial_solution, ls_returned, example>>

\* ------------------------------------- LocalSearch driven through execute()
InitLS ==
    /\ pc = "idle"
    /\ solution_score_calculator \in Scorers
    /\ iteration = 0
    /\ max_iterations = 0
    /\ max_allow_no_improvement_for = 0
    /\ rng = 0
    /\ current = ScoredSolution_new(0, 0)
    /\ history = History_new(0, 0, 0)
    /\ \E mi \in 0 .. MaxLsIterations, ws \in 0 .. MaxWindow,
          ac \in {0, MaxAllCapacity}, ex \in {0, MaxExpiry} :
           local_search = LocalSearch_new(mi, ws, MaxBestCapacity, ac, ex)
    /\ execute = ExecuteIdle
    /\ last_call = NoCall
    /\ rounds_called = 0
    /\ age_popped = <<>>
    /\ seen_at = [s \in Solutions |-> 0]
    /\ size_displaced = {}
    /\ initial_solution = current
    /\ example = NoExample
    /\ ls_returned = {}

\* mutant: execute starts from a fresh History
LSExecute_resets_history ==
    /\ pc = "idle"
    /\ \E start \in Solutions, allow_no_improvement_for \in 0 .. MaxAllow :
          execute' = ExecuteEnter(start, allow_no_improvement_for)
    /\ pc' = IF for_loop_has_next(0) THEN "ls" ELSE "ls_done"
    /\ local_search' =
          [local_search EXCEPT !.history =
              History_new(@.best_solutions_capacity, @.all_solutions_capacity,
                          @.all_solution_iteration_expiry)]
    /\ UNCHANGED <<solution_score_calculator, ilsVars, history,
                   last_call, obsVars>>

\* a caller invokes LocalSearch::execute(start, allow_no_improvement_for)
LSExecute ==
    /\ pc = "idle"
    /\ \E start \in Solutions, allow_no_improvement_for \in 0 .. MaxAllow :
          execute' = ExecuteEnter(start, allow_no_improvement_for)
    /\ pc' = IF for_loop_has_next(0) THEN "ls" ELSE "ls_done"
    /\ UNCHANGED <<solution_score_calculator, ilsVars, history, local_search,
                   last_call, obsVars>>

\* execute() hands its result back to the caller
LSReturn ==
    /\ pc = "ls_done"
    /\ pc' = "idle"
    /\ execute' = ExecuteIdle
    /\ last_call' = [op |-> "execute", flag |-> TRUE]
    /\ UNCHANGED <<solution_score_calculator, ilsVars, history, local_search, obsVars>>

NextLS ==
    \/ LSExecute
    \/ LSStep
    \/ LSReturn

SpecLS == InitLS /\ [][NextLS]_vars

\* execute() is a sequential loop: a pass that can run does run
SpecLSFair == SpecLS /\ WF_vars(LSStep)

\* -------------------- LocalSearch::execute with an infinite move proposer
\* The iterator that iter_local_moves returns never ends.  The sequences
\* considered are the periodic ones: execute.moves repeated forever, with
\* execute.position the index of the next item the iterator yields.
InfiniteMoves == [1 .. MaxMoves -> Solutions]

InitLSInfinite ==
    /\ pc = "idle"
    /\ solution_score_calculator
           \in {f \in Scorers : \A a \in Solutions : f[a] <= MaxHistoryScore}
    /\ iteration = 0
    /\ max_iterations = 0
    /\ max_allow_no_improvement_for = 0
    /\ rng = 0
    /\ current = ScoredSolution_new(0, 0)
    /\ history = History_new(0, 0, 0)
    /\ \E mi \in 0 .. MaxLsIterations, ws \in 0 .. MaxWindow :
           local_search = LocalSearch_new(mi, ws, MaxBestCapacity,
                                          MaxAllCapacity, MaxExpiry)
    /\ execute = ExecuteIdle
    /\ last_call = NoCall
    /\ rounds_called = 0
    /\ age_popped = <<>>
    /\ seen_at = [s \in Solutions |-> 0]
    /\ size_displaced = {}
    /\ initial_solution = current
    /\ example = NoExample
    /\ ls_returned = {}

\* the loop body up to the call of iter_local_moves (lines 310-316)
LSStepBegin ==
    /\ pc = "ls"
    /\ for_loop_has_next(execute.current_iteration)
    /\ local_search.history.iteration_count < MaxHistoryIterations
    /\ LET current_solution == execute.current_solution
           h1 == [local_search.history EXCEPT !.iteration_count = @ + 1]
           h == seen_solution(local_search.history, current_solution)
       IN /\ age_popped' = PoppedBetween(h1, _pop_solution_for_age(h1))
          /\ IF found_best(current_solution)
             THEN /\ local_search' = [local_search EXCEPT !.history = h]
                  /\ execute' = [execute EXCEPT
                                   !.recorded = execute.current_iteration + 1,
                                   !.result = {current_solution}]
                  /\ pc' = "ls_done"
             ELSE \E moves \in InfiniteMoves :
                    /\ local_search' = [local_search EXCEPT !.history = h, !.rng = @ + 1]
                    /\ execute' = [execute EXCEPT
                                     !.recorded = execute.current_iteration + 1,
                                     !.moves = moves,
                                     !.position = 1,
                                     !.neighborhood = <<>>]
                    /\ pc' = "collect"
    /\ UNCHANGED <<solution_score_calculator, ilsVars, history, last_call,
                   rounds_called, seen_at, size_displaced, initial_solution, ls_returned, example>>

\* collect() asks take(window_size) for an item it has not yet delivered:
\* one next() of the proposer's iterator, passed through filter and map
\* (lines 317-322)
LSPull ==
    /\ pc = "collect"
    /\ Len(execute.neighborhood) < local_search.window_size
    /\ LET solution == execute.moves[execute.position]
       IN execute' = [execute EXCEPT
                        !.position = (@ % Len(execute.moves)) + 1,
                        !.neighborhood =
                            IF is_solution_tabu(local_search.history, solution)
                            THEN @
                            ELSE Append(@, get_scored_solution(solution))]
    /\ UNCHANGED <<pc, solution_score_calculator, ilsVars, history, local_search,
                   last_call, obsVars>>

\* take(window_size) has delivered window_size items: collect() returns, the
\* neighborhood is sorted and the step is decided (lines 322-338)
LSCollected ==
    /\ pc = "collect"
    /\ ~(Len(execute.neighborhood) < local_search.window_size)
    /\ LSDecide(sort(execute.neighborhood))
    /\ UNCHANGED <<solution_score_calculator, ilsVars, history, local_search,
                   last_call, obsVars>>

NextLSInfinite ==
    \/ LSExecute
    \/ LSStepBegin
    \/ LSPull
    \/ LSCollected
    \/ LSReturn

\* execute() is sequential code: each of its steps that can run does run
SpecLSInfinite ==
    /\ InitLSInfinite
    /\ [][NextLSInfinite]_vars
    /\ WF_vars(LSStepBegin) /\ WF_vars(LSPull) /\ WF_vars(LSCollected)

\* ---------------------------------------------------- IteratedLocalSearch
\* SliceRandom::choose_weighted: any item of positive weight can be drawn
choose_weighted(choices) ==
    {choices[i][1] : i \in {j \in 1 .. Len(choices) : choices[j][2] > 0}}

\* mutant: the random member of the best set is never offered
AcceptanceCriterion_choose_without_best(existing_local_minima, new_local_minima, maybe_random_best_solution) ==
    choose_weighted(<<<<existing_local_minima, 1>>, <<new_local_minima, 5>>>>)

\* AcceptanceCriterion::choose, for one outcome of get_random_best_solution
AcceptanceCriterion_choose(existing_local_minima, new_local_minima, maybe_random_best_solution) ==
    LET choices ==
          IF maybe_random_best_solution # {}
          THEN <<<<existing_local_minima, 1>>,
                 <<new_local_minima, 5>>,
                 <<CHOOSE b \in maybe_random_best_solution : TRUE, 1>>>>
          ELSE <<<<existing_local_minima, 1>>, <<new_local_minima, 5>>>>
    IN choose_weighted(choices)

\* ------------------------------ AcceptanceCriterion driven through choose()
\* the arguments of a choose call: `current` is existing_local_minima,
\* execute.result holds new_local_minima, `history` is any History whose best
\* set is within its capacity
InitChoose ==
    /\ pc = "ls_done"
    /\ solution_score_calculator = [s \in Solutions |-> 0]
    /\ iteration = 0
    /\ max_iterations = 0
    /\ max_allow_no_improvement_for = 0
    /\ rng = 0
    /\ current \in HistoryInputs
    /\ \E best_solutions \in SUBSET HistoryInputs :
          /\ Cardinality(best_solutions) <= MaxBestCapacity
          /\ history = [History_new(MaxBestCapacity, MaxAllCapacity, MaxExpiry)
                          EXCEPT !.best_solutions = best_solutions]
    /\ local_search = LocalSearch_new(0, 0, 0, 0, 0)
    /\ \E new \in HistoryInputs : execute = [ExecuteIdle EXCEPT !.result = {new}]
    /\ last_call = NoCall
    /\ rounds_called = 0
    /\ age_popped = <<>>
    /\ seen_at = [s \in Solutions |-> 0]
    /\ size_displaced = {}
    /\ initial_solution = current
    /\ example = NoExample
    /\ ls_returned = {}

\* one call of AcceptanceCriterion::choose; the result is stored in `current`
\* as execute_round does
AcceptanceCriterionChoose ==
    /\ pc = "ls_done"
    /\ \E new \in execute.result,
          maybe_random_best_solution \in get_random_best_solution(history) :
          /\ current' \in AcceptanceCriterion_choose(current, new, maybe_random_best_solution)
          /\ rng' = rng + (IF maybe_random_best_solution # {} THEN 1 ELSE 0) + 1
          /\ last_call' = [op |-> "choose", flag |-> maybe_random_best_solution # {}]
    /\ pc' = "idle"
    /\ UNCHANGED <<solution_score_calculator, iteration, max_iterations,
                   max_allow_no_improvement_for, history, lsVars, obsVars>>

NextChoose == AcceptanceCriterionChoose

SpecChoose == InitChoose /\ [][NextChoose]_vars

is_finished == iteration >= max_iterations

\* IteratedLocalSearch::get_iteration_info
get_iteration_info == [current |-> iteration, total |-> max_iterations]

\* IteratedLocalSearch::get_best_solution, `self.history.get_best().unwrap()`:
\* {x} when it returns x, the empty set when unwrap panics on None
get_best_solution == get_best(history)

\* IteratedLocalSearch::new: `current` is the scored initial solution
Init ==
    /\ pc = "idle"
    /\ solution_score_calculator \in {f \in Scorers : \A a \in Solutions : f[a] <= MaxIlsScore}
    /\ iteration = 0
    /\ max_iterations \in 0 .. MaxIlsIterations
    /\ max_allow_no_improvement_for = MaxAllow
    /\ rng = 1
    /\ \E initial \in Solutions : current = get_scored_solution(initial)
    /\ \E bc \in 0 .. MaxBestCapacity :
           history = History_new(bc, MaxAllCapacity, MaxExpiry)
    /\ \E mi \in {0, MaxLsIterations} :
           local_search = LocalSearch_new(mi, MaxWindow, MaxBestCapacity,
                                          MaxAllCapacity, MaxExpiry)
    /\ execute = ExecuteIdle
    /\ last_call = NoCall
    /\ rounds_called = 0
    /\ age_popped = <<>>
    /\ seen_at = [s \in Solutions |-> 0]
    /\ size_displaced = {}
    /\ initial_solution = current
    /\ example = NoExample
    /\ ls_returned = {}

\* the caller's loop `while !is_finished() { execute_round() }`; execute_round
\* is public, so up to MaxRounds calls are made whatever is_finished says
execute_round_callable == rounds_called < MaxRounds \/ ~is_finished

\* the early return of execute_round (lines 174-183)
RoundIsTerminal ==
    \E best \in get_best(history) : is_best(best.score)

\* mutant: the early return precedes the increment of `iteration`
ExecuteRoundTerminal_no_increment ==
    /\ pc = "idle"
    /\ execute_round_callable
    /\ RoundIsTerminal
    /\ rounds_called' = rounds_called + 1
    /\ last_call' = [op |-> "execute_round", flag |-> TRUE]
    /\ UNCHANGED <<pc, solution_score_calculator, ilsVars, history, lsVars,
                   age_popped, seen_at, size_displaced, initial_solution, ls_returned, example>>

\* mutant: the perturbation is drawn before the early return
ExecuteRoundTerminal_perturbs_first ==
    /\ pc = "idle"
    /\ execute_round_callable
    /\ RoundIsTerminal
    /\ iteration' = iteration + 1
    /\ rng' = rng + 1
    /\ rounds_called' = rounds_called + 1
    /\ last_call' = [op |-> "execute_round", flag |-> TRUE]
    /\ UNCHANGED <<pc, solution_score_calculator, max_iterations,
                   max_allow_no_improvement_for, current, history, lsVars,
                   age_popped, seen_at, size_displaced, initial_solution, ls_returned, example>>

\* mutant: the periodic restart precedes the early return
ExecuteRoundTerminal_restarts_first ==
    /\ pc = "idle"
    /\ execute_round_callable
    /\ RoundIsTerminal
    /\ iteration' = iteration + 1
    /\ rounds_called' = rounds_called + 1
    /\ LET restart == iteration' > 0 /\ iteration' % RestartInterval = 0
       IN /\ \E initial \in (IF restart THEN Solutions ELSE {current.solution}) :
                current' = IF restart THEN get_scored_solution(initial) ELSE current
          /\ rng' = rng + (IF restart THEN 1 ELSE 0)
    /\ last_call' = [op |-> "execute_round", flag |-> TRUE]
    /\ UNCHANGED <<pc, solution_score_calculator, max_iterations,
                   max_allow_no_improvement_for, history, lsVars,
                   age_popped, seen_at, size_displaced, initial_solution, ls_returned, example>>

\* execute_round when the best of the History is already the best possible
ExecuteRoundTerminal ==
    /\ pc = "idle"
    /\ execute_round_callable
    /\ RoundIsTerminal
    /\ iteration' = iteration + 1
    /\ rounds_called' = rounds_called + 1
    /\ last_call' = [op |-> "execute_round", flag |-> TRUE]
    /\ UNCHANGED <<pc, solution_score_calculator, max_iterations,
                   max_allow_no_improvement_for, rng, current, history, lsVars,
                   age_popped, seen_at, size_displaced, initial_solution, ls_returned, example>>

\* mutant: `iteration` is incremented in the early-return branch only
ExecuteRoundBegin_without_increment ==
    /\ pc = "idle"
    /\ execute_round_callable
    /\ ~RoundIsTerminal
    /\ iteration' = iteration
    /\ rounds_called' = rounds_called + 1
    /\ LET restart == iteration' > 0 /\ iteration' % RestartInterval = 0
       IN /\ \E initial \in (IF restart THEN Solutions ELSE {current.solution}) :
                current' = IF restart THEN get_scored_solution(initial) ELSE current
          /\ rng' = rng + (IF restart THEN 1 ELSE 0) + 1
    /\ \E perturbed \in Solutions :
          execute' = ExecuteEnter(perturbed, max_allow_no_improvement_for)
    /\ pc' = IF for_loop_has_next(0) THEN "ls" ELSE "ls_done"
    /\ UNCHANGED <<solution_score_calculator, max_iterations,
                   max_allow_no_improvement_for, history, local_search, last_call,
                   age_popped, seen_at, size_displaced, initial_solution, ls_returned, example>>

\* mutant: the restart tests `iteration` as it was before the increment
ExecuteRoundBegin_restart_tests_old_iteration ==
    /\ pc = "idle"
    /\ execute_round_callable
    /\ ~RoundIsTerminal
    /\ iteration' = iteration + 1
    /\ rounds_called' = rounds_called + 1
    /\ LET restart == iteration > 0 /\ iteration % RestartInterval = 0
       IN /\ \E initial \in (IF restart THEN Solutions ELSE {current.solution}) :
                current' = IF restart THEN get_scored_solution(initial) ELSE current
          /\ rng' = rng + (IF restart THEN 1 ELSE 0) + 1
    /\ \E perturbed \in Solutions :
          execute' = ExecuteEnter(perturbed, max_allow_no_improvement_for)
    /\ pc' = IF for_loop_has_next(0) THEN "ls" ELSE "ls_done"
    /\ UNCHANGED <<solution_score_calculator, max_iterations,
                   max_allow_no_improvement_for, history, local_search, last_call,
                   age_popped, seen_at, size_displaced, initial_solution, ls_returned, example>>

\* execute_round up to the call of LocalSearch::execute (lines 174-197)
ExecuteRoundBegin ==
    /\ pc = "idle"
    /\ execute_round_callable
    /\ ~RoundIsTerminal
    /\ iteration' = iteration + 1
    /\ rounds_called' = rounds_called + 1
    /\ LET restart == iteration' > 0 /\ iteration' % RestartInterval = 0
       IN /\ \E initial \in (IF restart THEN Solutions ELSE {current.solution}) :
                current' = IF restart THEN get_scored_solution(initial) ELSE current
          /\ rng' = rng + (IF restart THEN 1 ELSE 0) + 1
    /\ \E perturbed \in Solutions :
          execute' = ExecuteEnter(perturbed, max_allow_no_improvement_for)
    /\ pc' = IF for_loop_has_next(0) THEN "ls" ELSE "ls_done"
    /\ UNCHANGED <<solution_score_calculator, max_iterations,
                   max_allow_no_improvement_for, history, local_search, last_call,
                   age_popped, seen_at, size_displaced, initial_solution, ls_returned, example>>

\* mutant: acceptance chooses before the History admits `new`
ExecuteRoundEnd_chooses_first ==
    /\ pc = "ls_done"
    /\ \E new \in execute.result :
          /\ ls_returned' = ls_returned \cup {new}
          /\ IF local_search_chose_solution_panics(history)
             THEN /\ pc' = "panicked"
                  /\ UNCHANGED <<history, current, rng, last_call, execute>>
             ELSE LET h == local_search_chose_solution(history, new)
                  IN /\ history' = h
                     /\ execute' = ExecuteIdle
                     /\ \E maybe_random_best_solution \in get_random_best_solution(history) :
                           /\ current' \in AcceptanceCriterion_choose(
                                               current, new, maybe_random_best_solution)
                           /\ rng' = rng + (IF maybe_random_best_solution # {} THEN 1 ELSE 0) + 1
                     /\ pc' = "idle"
                     /\ last_call' = [op |-> "execute_round", flag |-> FALSE]
    /\ UNCHANGED <<solution_score_calculator, iteration, max_iterations,
                   max_allow_no_improvement_for, local_search, rounds_called,
                   age_popped, seen_at, size_displaced, initial_solution, example>>

\* execute_round after LocalSearch::execute returned (lines 198-201)
ExecuteRoundEnd ==
    /\ pc = "ls_done"
    /\ \E new \in execute.result :
          /\ ls_returned' = ls_returned \cup {new}
          /\ IF local_search_chose_solution_panics(history)
             THEN /\ pc' = "panicked"
                  /\ UNCHANGED <<history, current, rng, last_call, execute>>
             ELSE LET h == local_search_chose_solution(history, new)
                  IN /\ history' = h
                     /\ execute' = ExecuteIdle
                     /\ \E maybe_random_best_solution \in get_random_best_solution(h) :
                           /\ current' \in AcceptanceCriterion_choose(
                                               current, new, maybe_random_best_solution)
                           /\ rng' = rng + (IF maybe_random_best_solution # {} THEN 1 ELSE 0) + 1
                     /\ pc' = "idle"
                     /\ last_call' = [op |-> "execute_round", flag |-> FALSE]
    /\ UNCHANGED <<solution_score_calculator, iteration, max_iterations,
                   max_allow_no_improvement_for, local_search, rounds_called,
                   age_popped, seen_at, size_displaced, initial_solution, example>>

Next ==
    \/ ExecuteRoundTerminal
    \/ ExecuteRoundBegin
    \/ LSStep
    \/ ExecuteRoundEnd

Spec == Init /\ [][Next]_vars

\* ------------------------------------------ ILS run past the restart interval
\* a run long enough for the periodic restart of execute_round (line 185)
InitRestart ==
    /\ pc = "idle"
    /\ solution_score_calculator
           \in {f \in Scorers : \A a \in Solutions : f[a] <= MaxHistoryScore}
    /\ iteration = 0
    /\ max_iterations = RestartInterval + 1
    /\ max_allow_no_improvement_for = MaxAllow
    /\ rng = 1
    /\ \E initial \in Solutions : current = get_scored_solution(initial)
    /\ history = History_new(1, MaxAllCapacity, MaxExpiry)
    /\ \E mi \in {0, MaxLsIterations} :
           local_search = LocalSearch_new(mi, MaxWindow, MaxBestCapacity,
                                          MaxAllCapacity, MaxExpiry)
    /\ execute = ExecuteIdle
    /\ last_call = NoCall
    /\ rounds_called = 0
    /\ age_popped = <<>>
    /\ seen_at = [s \in Solutions |-> 0]
    /\ size_displaced = {}
    /\ initial_solution = current
    /\ example = NoExample
    /\ ls_returned = {}

SpecRestart == InitRestart /\ [][Next]_vars

\* --------------------------------------------------- example domain: N-Queens
\* the engine is not running while an example function is applied on its own
EngineUnused ==
    /\ pc = "idle"
    /\ solution_score_calculator = [s \in Solutions |-> 0]
    /\ iteration = 0
    /\ max_iterations = 0
    /\ max_allow_no_improvement_for = 0
    /\ rng = 0
    /\ current = ScoredSolution_new(0, 0)
    /\ history = History_new(0, 0, 0)
    /\ local_search = LocalSearch_new(0, 0, 0, 0, 0)
    /\ execute = ExecuteIdle
    /\ last_call = NoCall
    /\ rounds_called = 0
    /\ age_popped = <<>>
    /\ seen_at = [s \in Solutions |-> 0]
    /\ size_displaced = {}
    /\ initial_solution = current
    /\ ls_returned = {}

abs(x) == IF x < 0 THEN -x ELSE x

RECURSIVE SumSeq(_)
SumSeq(seq) == IF seq = <<>> THEN 0 ELSE Head(seq) + SumSeq(Tail(seq))

\* NQueensSolution.rows with rows[k] the row of the queen of column k - 1
NQueensSolutions == UNION {[1 .. n -> 0 .. (n - 1)] : n \in 0 .. MaxBoardSize}

\* the two nested loops of get_col_scores, entered at the pair (col1, col2)
RECURSIVE get_col_scores_from(_, _, _, _)
get_col_scores_from(rows, result, col1, col2) ==
    IF col1 > Len(rows) THEN result
    ELSE IF col2 > Len(rows) THEN get_col_scores_from(rows, result, col1 + 1, col1 + 2)
    ELSE LET row_diff == rows[col2] - rows[col1]
             column_diff == col2 - col1
             conflict == row_diff = 0 \/ abs(row_diff) = abs(column_diff)
             counted == IF conflict
                        THEN [result EXCEPT ![col1] = @ + 1, ![col2] = @ + 1]
                        ELSE result
         IN get_col_scores_from(rows, counted, col1, col2 + 1)

\* mutant: queens on one diagonal are not counted
get_col_scores_rows_only(solution) ==
    [col1 \in 1 .. Len(solution) |->
        Cardinality({col2 \in 1 .. Len(solution) :
                        col2 # col1 /\ solution[col2] = solution[col1]})]

\* `vec![0; solution.rows.len()]`, then the loops
get_col_scores(solution) ==
    get_col_scores_from(solution, [col \in 1 .. Len(solution) |-> 0], 1, 2)

NQueensScore_is_best(score) == score = 0

NQueensSolutionScoreCalculator_get_scored_solution(solution) ==
    LET row_scores == get_col_scores(solution)
    IN [score |-> SumSeq(row_scores), solution |-> solution]

InitNQueens ==
    /\ EngineUnused
    /\ \E solution \in NQueensSolutions :
          example = [op |-> "board", solution |-> solution]

\* the scorer is applied to the board: get_scored_solution calls get_col_scores
NQueensGetScoredSolution ==
    /\ example.op = "board"
    /\ example' = [op |-> "scored",
                   solution |-> example.solution,
                   col_scores |-> get_col_scores(example.solution),
                   scored |-> NQueensSolutionScoreCalculator_get_scored_solution(
                                  example.solution)]
    /\ UNCHANGED <<pc, solution_score_calculator, ilsVars, history, lsVars,
                   last_call, rounds_called, age_popped, seen_at, size_displaced,
                   initial_solution, ls_returned>>

NextNQueens == NQueensGetScoredSolution

SpecNQueens == InitNQueens /\ [][NextNQueens]_vars

\* ----------------------------------------- example domain: employee scheduling
\* NaiveDate as a day number
Dates == 0 .. MaxDay
Employees == 1 .. NumEmployees

\* the loop of generate_initial_solution entered at `day`: push, then test
RECURSIVE generate_initial_solution_from(_, _, _)
generate_initial_solution_from(day, end_date, date_to_employee) ==
    UNION {LET pushed == Append(date_to_employee, employee)
           IN IF day > end_date
              THEN {pushed}
              ELSE generate_initial_solution_from(day + 1, end_date, pushed)
           : employee \in Employees}

\* the solutions generate_initial_solution can return, one per run of draws
generate_initial_solution(start_date, end_date) ==
    {[start_date |-> start_date,
      end_date |-> end_date,
      date_to_employee |-> date_to_employee]
     : date_to_employee \in generate_initial_solution_from(start_date, end_date, <<>>)}

\* the loop of get_days_to_employees entered at (index, current_date)
RECURSIVE get_days_to_employees_from(_, _, _, _)
get_days_to_employees_from(solution, index, current_date, result) ==
    LET employee == solution.date_to_employee[index]
        pushed == Append(result, <<current_date, employee>>)
    IN IF current_date >= solution.end_date
       THEN pushed
       ELSE get_days_to_employees_from(solution, index + 1, current_date + 1, pushed)

get_days_to_employees(solution) ==
    get_days_to_employees_from(solution, 1, solution.start_date, <<>>)

InitSchedule ==
    /\ EngineUnused
    /\ \E start_date \in Dates, end_date \in Dates :
          /\ start_date <= end_date
          /\ example = [op |-> "generator", start_date |-> start_date,
                        end_date |-> end_date]

\* ScheduleInitialSolutionGenerator::generate_initial_solution, then the days
\* the solution reports
ScheduleGenerateInitialSolution ==
    /\ example.op = "generator"
    /\ \E solution \in generate_initial_solution(example.start_date, example.end_date) :
          example' = [op |-> "schedule",
                      solution |-> solution,
                      days_to_employees |-> get_days_to_employees(solution)]
    /\ UNCHANGED <<pc, solution_score_calculator, ilsVars, history, lsVars,
                   last_call, rounds_called, age_popped, seen_at, size_displaced,
                   initial_solution, ls_returned>>

NextSchedule == ScheduleGenerateInitialSolution

SpecSchedule == InitSchedule /\ [][NextSchedule]_vars

\* ------------------------------------------------ example domain: perturbations
\* the divisors of the two kick sizes in propose_new_starting_solution
KickFromBestDivisor == 20
EscapeDivisor == 2

\* a vector long enough for the smaller kick to exceed one position
LargeSize == 2 * KickFromBestDivisor

\* Ord::clamp; it asserts min <= max
clamp_panics(min, max) == min > max

clamp(x, min, max) == IF x < min THEN min ELSE IF x > max THEN max ELSE x

\* mutant: the upper end of the range is one too high
number_to_alter_range_one_more(in_best, total) ==
    1 .. (clamp(total \div (IF in_best THEN KickFromBestDivisor ELSE EscapeDivisor), 1, total) + 1)

\* the range of `rng.gen_range(1..=(total / d).clamp(1, total))`
number_to_alter_range(in_best, total) ==
    1 .. clamp(total \div (IF in_best THEN KickFromBestDivisor ELSE EscapeDivisor), 1, total)

\* the index sets that `shuffle` followed by `take(number)` can select
RECURSIVE TakeOfShuffle(_, _)
TakeOfShuffle(indices, number) ==
    IF number = 0 THEN {{}}
    ELSE UNION {{taken \cup {i} : taken \in TakeOfShuffle({j \in indices : j < i}, number - 1)}
                : i \in indices}

\* the vectors obtained from `positions` by writing a drawn value at each
\* index of one drawn set of `number` indices (shuffle, take, assign)
AlterPositions(positions, number, values) ==
    {[i \in 1 .. Len(positions) |-> IF i \in DOMAIN drawn THEN drawn[i] ELSE positions[i]]
     : drawn \in UNION {[indices -> values]
                          : indices \in TakeOfShuffle(1 .. Len(positions), number)}}

\* what one call of propose_new_starting_solution can return for a vector of
\* positions, given the strategy drawn
propose_positions(strategy, positions, in_best, values) ==
    IF strategy = "DoNothing"
    THEN {positions}
    ELSE UNION {AlterPositions(positions, number, values)
                : number \in number_to_alter_range(in_best, Len(positions))}

\* ScheduleSolution.date_to_employee as the generator builds it
ScheduleVectors ==
    UNION {[1 .. n -> Employees] : n \in 2 .. (MaxDay + 2)}

InitPerturbation ==
    /\ pc = "idle"
    /\ solution_score_calculator = [s \in Solutions |-> 0]
    /\ iteration = 0
    /\ max_iterations = 0
    /\ max_allow_no_improvement_for = 0
    /\ rng = 0
    /\ \/ \E rows \in NQueensSolutions :
             /\ current = NQueensSolutionScoreCalculator_get_scored_solution(rows)
             /\ example = [op |-> "perturbation", domain |-> "nqueens"]
       \/ \E date_to_employee \in ScheduleVectors :
             /\ current = [score |-> 0, solution |-> date_to_employee]
             /\ example = [op |-> "perturbation", domain |-> "schedule"]
       \/ /\ current = [score |-> 0, solution |-> [i \in 1 .. LargeSize |-> 1]]
          /\ example = [op |-> "perturbation", domain |-> "large schedule"]
    /\ \E best_solutions \in {{}, {current}} :
          /\ example.domain = "large schedule" => best_solutions = {current}
          /\ history = [History_new(1, 0, 0) EXCEPT !.best_solutions = best_solutions]
    /\ local_search = LocalSearch_new(0, 0, 0, 0, 0)
    /\ execute = ExecuteIdle
    /\ last_call = NoCall
    /\ rounds_called = 0
    /\ age_popped = <<>>
    /\ seen_at = [s \in Solutions |-> 0]
    /\ size_displaced = {}
    /\ initial_solution = current
    /\ ls_returned = {}

\* NQueensPerturbation::propose_new_starting_solution
NQueensPerturbationPropose ==
    /\ pc = "idle"
    /\ example.op = "perturbation"
    /\ example.domain = "nqueens"
    /\ \E current_strategy \in {"ChangeSubset", "DoNothing"} :
          LET board_size == Len(current.solution)
          IN IF current_strategy = "ChangeSubset" /\ clamp_panics(1, board_size)
             THEN /\ pc' = "panicked"
                  /\ example' = example
             ELSE /\ pc' = pc
                  /\ \E new_solution \in propose_positions(
                                              current_strategy, current.solution,
                                              is_best_solution(history, current),
                                              0 .. (board_size - 1)) :
                         example' = [op |-> "perturbed", domain |-> example.domain,
                                     strategy |-> current_strategy,
                                     new_solution |-> new_solution]
    /\ rng' = rng + 1
    /\ UNCHANGED <<solution_score_calculator, iteration, max_iterations,
                   max_allow_no_improvement_for, current, history, lsVars,
                   last_call, rounds_called, age_popped, seen_at, size_displaced,
                   initial_solution, ls_returned>>

\* SchedulePerturbation::propose_new_starting_solution
SchedulePerturbationPropose ==
    /\ pc = "idle"
    /\ example.op = "perturbation"
    /\ example.domain \in {"schedule", "large schedule"}
    /\ \E current_strategy \in {"DoNothing", "ChangeDaysSubsetRandomly"} :
          LET total_days == Len(current.solution)
          IN IF current_strategy = "ChangeDaysSubsetRandomly" /\ clamp_panics(1, total_days)
             THEN /\ pc' = "panicked"
                  /\ example' = example
             ELSE /\ pc' = pc
                  /\ \E new_solution \in propose_positions(
                                              current_strategy, current.solution,
                                              is_best_solution(history, current),
                                              Employees) :
                         example' = [op |-> "perturbed", domain |-> example.domain,
                                     strategy |-> current_strategy,
                                     new_solution |-> new_solution]
    /\ rng' = rng + 1
    /\ UNCHANGED <<solution_score_calculator, iteration, max_iterations,
                   max_allow_no_improvement_for, current, history, lsVars,
                   last_call, rounds_called, age_popped, seen_at, size_displaced,
                   initial_solution, ls_returned>>

NextPerturbation ==
    \/ NQueensPerturbationPropose
    \/ SchedulePerturbationPropose

SpecPerturbation == InitPerturbation /\ [][NextPerturbation]_vars

\* ----------------------------------------------------------------- claims

\* C1: the score of the scored solution that LocalSearch::execute returns is
\* <= the score the scorer assigns to the start solution.
C1_ReturnedNotWorseThanStart ==
    \A r \in execute.result : r.score <= solution_score_calculator[execute.start]

\* C2: LocalSearch::execute returns a minimum-score member of the values that
\* `current_solution` held during the descent.
C2_ReturnsMinimumVisited ==
    \A r \in execute.result :
        /\ r \in execute.visited
        /\ \A v \in execute.visited : r.score <= v.score

\* C3: the score of history.get_best() never increases from one state of an
\* ILS run to the next (whenever get_best is defined in both).
C3_MonotoneBest ==
    [][\A before \in get_best(history), after \in get_best(history') :
           after.score <= before.score]_vars

\* a second round completed and the best set holds two local minima
C3_Witness ==
    /\ last_call = [op |-> "execute_round", flag |-> FALSE]
    /\ pc = "idle"
    /\ rounds_called >= 2
    /\ Cardinality(history.best_solutions) >= 2

\* C4: after every seen_solution call the recent deque holds at most
\* all_solutions_capacity entries.
C4_DequeWithinCapacity ==
    last_call.op = "seen_solution" =>
        Len(history.all_solutions) <= history.all_solutions_capacity

\* C5: after every local_search_chose_solution call the best set holds at
\* most best_solutions_capacity members.
C5_BestSetWithinCapacity ==
    Cardinality(history.best_solutions) <= history.best_solutions_capacity

\* local_search_chose_solution acted on a full best set, which is still full
C5_Witness ==
    /\ last_call = [op |-> "local_search_chose_solution", flag |-> TRUE]
    /\ history.best_solutions_capacity >= 1
    /\ Cardinality(history.best_solutions) = history.best_solutions_capacity

\* C6: after every seen_solution call (expiry >= 1) every deque entry has
\* iteration_count - iteration_inserted < all_solution_iteration_expiry, and
\* the entries the call popped for age are exactly entries with
\* iteration_inserted + all_solution_iteration_expiry <= iteration_count.
C6_AgeExpiry ==
    (last_call.op = "seen_solution" /\ history.all_solution_iteration_expiry >= 1) =>
        /\ \A i \in 1 .. Len(history.all_solutions) :
              history.iteration_count - history.all_solutions[i].iteration
                  < history.all_solution_iteration_expiry
        /\ \A i \in 1 .. Len(age_popped) :
              age_popped[i].iteration + history.all_solution_iteration_expiry
                  <= history.iteration_count

\* C7: a solution passed to seen_solution within the last
\* all_solution_iteration_expiry calls, and not displaced by the size cap
\* (no size pop removed it, and fewer than all_solutions_capacity solutions
\* were seen after it), is tabu.
C7_RecentlySeenIsTabu ==
    \A s \in Solutions :
        (/\ seen_at[s] > 0
         /\ history.iteration_count - seen_at[s] < history.all_solution_iteration_expiry
         /\ s \notin size_displaced
         /\ Cardinality({t \in Solutions : seen_at[t] > seen_at[s]})
                < history.all_solutions_capacity)
        => is_solution_tabu(history, s)

\* C8: once execute_round has been called max_iterations times is_finished()
\* is true, and it stays true after any further call.
C8_FinishedAfterMaxIterations ==
    /\ [](rounds_called >= max_iterations => is_finished)
    /\ [][is_finished => is_finished']_vars

\* execute_round was called more often than max_iterations
C8_Witness ==
    /\ max_iterations >= 1
    /\ rounds_called > max_iterations
    /\ is_finished

\* C9: an execute_round call made while history.get_best() is the best
\* possible leaves current, the History, the LocalSearch and the RNG unchanged
\* and starts no local search.
C9_TerminalRoundIsNoOp ==
    [][(pc = "idle" /\ RoundIsTerminal /\ rounds_called' = rounds_called + 1)
           => UNCHANGED <<current, history, local_search, rng, execute, pc>>]_vars

\* a terminal execute_round has just returned
C9_Witness ==
    /\ last_call = [op |-> "execute_round", flag |-> TRUE]
    /\ RoundIsTerminal
    /\ pc = "idle"

\* C10: is_finished() is true whenever iteration >= max_iterations or the
\* best score held by the History is the best possible.
C10_FinishedWhenBestFound ==
    (pc = "idle" /\ (iteration >= max_iterations \/ RoundIsTerminal)) => is_finished

\* C12: get_best_solution() called at any point after construction, also
\* before any execute_round has completed, returns a scored solution: the
\* best set is non-empty whenever a caller can invoke the getter.
C12_GetBestSolutionNeverFails ==
    pc = "idle" => get_best_solution # {}

\* a capacity, an iteration limit or the window size of the engine is zero
ZeroConfiguration ==
    \/ history.best_solutions_capacity = 0
    \/ history.all_solutions_capacity = 0
    \/ local_search.history.best_solutions_capacity = 0
    \/ local_search.history.all_solutions_capacity = 0
    \/ local_search.max_iterations = 0
    \/ local_search.window_size = 0
    \/ max_iterations = 0

\* C13: with a zero capacity, iteration limit or window size, the loop
\* `while !is_finished() { execute_round() }` runs without failure and
\* get_best_solution() then yields the initial scored solution.
C13_ZeroConfigurationIsNoOp ==
    (ZeroConfiguration /\ iteration <= max_iterations) =>
        /\ pc # "panicked"
        /\ (pc = "idle" /\ is_finished) => get_best_solution = {initial_solution}

\* C14: with a move proposer whose sequence is infinite every LocalSearch step
\* still completes: building the neighborhood ends after finitely many
\* proposals, however many of them are tabu.
C14_StepCompletesOnInfiniteProposer ==
    (pc = "collect") ~> (pc # "collect")

\* the passes the running descent can still make fit under MaxHistoryIterations
DescentFitsBound ==
    local_search.history.iteration_count
        + (local_search.max_iterations - execute.current_iteration) <= MaxHistoryIterations

\* C15: with a finite move proposer LocalSearch::execute terminates and
\* returns one ScoredSolution after at most max_iterations passes of its loop
\* (at most max_iterations seen_solution recordings per descent).
C15_ExecuteTerminates ==
    /\ [](execute.recorded <= local_search.max_iterations)
    /\ [](pc = "ls" => execute.recorded < local_search.max_iterations)
    /\ [](pc = "ls_done" => \E r \in ScoredSolution : execute.result = {r})
    /\ (pc = "ls" /\ DescentFitsBound) ~> (pc = "ls_done")

\* a descent ended after exactly max_iterations passes
C15_Witness ==
    /\ pc = "ls_done"
    /\ local_search.max_iterations = MaxLsIterations
    /\ execute.recorded = local_search.max_iterations
    /\ execute.current_iteration = local_search.max_iterations

\* the scored start of the running (or just finished) LocalSearch::execute call
ScoredStart ==
    ScoredSolution_new(execute.start, solution_score_calculator[execute.start])

\* C16: when the tabu-filtered neighborhood of the start is empty in the first
\* pass of the loop, LocalSearch::execute returns exactly the scored start.
C16_EmptyNeighborhoodReturnsStart ==
    (/\ pc = "ls_done"
     /\ execute.recorded = 1
     /\ ~is_best(execute.current_solution.score)
     /\ execute.neighborhood = <<>>)
    => execute.result = {ScoredStart}

\* the first pass found no neighbor of a start whose score is not the best
C16_Witness ==
    /\ pc = "ls_done"
    /\ execute.recorded = 1
    /\ solution_score_calculator[execute.start] > 0
    /\ local_search.window_size >= 1
    /\ execute.neighborhood = <<>>
    /\ execute.result = {ScoredStart}

\* C17: when the score of the start is the best possible, LocalSearch::execute
\* returns the scored start and current_solution never becomes a neighbor.
C17_BestStartDoesNotMove ==
    (pc \in {"ls", "ls_done"} /\ is_best(solution_score_calculator[execute.start])) =>
        /\ execute.current_solution = ScoredStart
        /\ execute.visited = {ScoredStart}
        /\ pc = "ls_done" => execute.result = {ScoredStart}

\* a descent from a best-possible start returned in its first pass although
\* the search was free to move
C17_Witness ==
    /\ pc = "ls_done"
    /\ is_best(solution_score_calculator[execute.start])
    /\ execute.recorded = 1
    /\ local_search.window_size >= 1
    /\ execute.allow_no_improvement_for >= 1
    /\ execute.result = {ScoredStart}

\* C18: once a round has completed a local search (best_solutions_capacity
\* >= 1), get_best_solution() returns a scored solution whose score is the
\* minimum over everything LocalSearch::execute returned in any round so far.
C18_BestEverIsKept ==
    (pc = "idle" /\ ls_returned # {} /\ history.best_solutions_capacity >= 1) =>
        /\ get_best_solution # {}
        /\ \A best \in get_best_solution :
              /\ best \in ls_returned
              /\ \A r \in ls_returned : best.score <= r.score

\* three rounds returned three different local minima to a best set of two
C18_Witness ==
    /\ pc = "idle"
    /\ last_call = [op |-> "execute_round", flag |-> FALSE]
    /\ history.best_solutions_capacity = 2
    /\ Cardinality(ls_returned) = 3
    /\ \E r \in ls_returned : \A best \in get_best_solution : r.score > best.score

\* C19: AcceptanceCriterion::choose returns one of its candidates.  With a
\* non-empty best set every one of existing, new and each member of the best
\* set can be the result and nothing else can; with an empty best set the
\* result is existing or new.
C19_ChooseReturnsCandidate ==
    /\ [](pc = "ls_done" =>
            \A new \in execute.result,
               maybe_random_best_solution \in get_random_best_solution(history) :
                 AcceptanceCriterion_choose(current, new, maybe_random_best_solution)
                     = {current, new} \cup maybe_random_best_solution)
    /\ [][(pc = "ls_done" /\ pc' = "idle") =>
             \E new \in execute.result :
                 /\ current' \in {current, new} \cup history.best_solutions
                 /\ history.best_solutions = {} => current' \in {current, new}]_vars

\* choose returned a member of the best set that is neither existing nor new
C19_Witness ==
    /\ last_call = [op |-> "choose", flag |-> TRUE]
    /\ current \in history.best_solutions
    /\ current # initial_solution
    /\ current \notin execute.result

\* C20: local_search_chose_solution(c) admits c while the best set is below
\* its capacity; on a full set c is admitted iff c.score <= the score of the
\* greatest member, which is then the one member evicted; otherwise the set
\* is unchanged.
C20_AdmissionRule ==
    \A c \in HistoryInputs :
        ~local_search_chose_solution_panics(history) =>
            LET before == history.best_solutions
                after == local_search_chose_solution(history, c).best_solutions
            IN IF Cardinality(before) < history.best_solutions_capacity
               THEN after = before \cup {c}
               ELSE \E worst \in before :
                      /\ \A m \in before : m = worst \/ ScoredSolution_lt(m, worst)
                      /\ IF c.score <= worst.score
                         THEN c \in after /\ after = (before \ {worst}) \cup {c}
                         ELSE c \notin after /\ after = before

\* local_search_chose_solution acted on a full set of two, which now holds
\* members of different scores
C20_Witness ==
    /\ last_call = [op |-> "local_search_chose_solution", flag |-> TRUE]
    /\ history.best_solutions_capacity = MaxBestCapacity
    /\ Cardinality(history.best_solutions) = MaxBestCapacity
    /\ \E a, b \in history.best_solutions : a.score < b.score

\* C21: a local_search_chose_solution call changes nothing of the History but
\* its best set (deque, lookup set and iteration_count stay as they were); a
\* seen_solution call leaves the best set as it was.
C21_MutatorFrames ==
    [][/\ last_call'.op = "local_search_chose_solution" =>
              history' = [history EXCEPT !.best_solutions = history'.best_solutions]
       /\ last_call'.op = "seen_solution" =>
              history'.best_solutions = history.best_solutions]_vars

\* a seen_solution call has just pushed an entry while the best set and the
\* deque both held something
C21_Witness ==
    /\ last_call = [op |-> "seen_solution", flag |-> TRUE]
    /\ history.best_solutions # {}
    /\ Len(history.all_solutions) >= 2

\* C23: in every state of a History the lookup set holds exactly the
\* solutions of the deque entries, and no solution has two deque entries.
C23_LookupMirrorsDeque ==
    LET all_solutions == history.all_solutions
    IN /\ history.all_solutions_lookup =
              {all_solutions[i].scored_solution.solution : i \in 1 .. Len(all_solutions)}
       /\ \A i, j \in 1 .. Len(all_solutions) :
              all_solutions[i].scored_solution.solution
                  = all_solutions[j].scored_solution.solution => i = j

\* the deque holds two entries after the size cap displaced a third
C23_Witness ==
    /\ Len(history.all_solutions) = 2
    /\ size_displaced # {}
    /\ last_call.op = "seen_solution"

\* C25: scored solutions are equal when their solutions are equal, whatever
\* their scores: is_best_solution(s) holds whenever the best set has an entry
\* with the solution of s, and the best set never has two entries with the
\* same solution.
C25_EqualityBySolution ==
    /\ \A s \in HistoryInputs :
           (\E b \in history.best_solutions : b.solution = s.solution)
               => is_best_solution(history, s)
    /\ \A a, b \in history.best_solutions : a.solution = b.solution => a = b

\* C24: when seen_solution is called with the solution of the seen_solution
\* call before it, the lookup set after the second call equals the lookup set
\* after the first, for every capacity and expiry.
C24_RepeatedSeenKeepsLookup ==
    [][\A s \in Solutions :
          (/\ history.iteration_count > 0
           /\ seen_at[s] = history.iteration_count
           /\ last_call'.op = "seen_solution"
           /\ history'.iteration_count = history.iteration_count + 1
           /\ seen_at'[s] = history'.iteration_count)
          => history'.all_solutions_lookup = history.all_solutions_lookup]_vars

\* the second of two calls with one solution found it in the lookup set, next
\* to another entry
C24_Witness ==
    /\ last_call = [op |-> "seen_solution", flag |-> FALSE]
    /\ \E s \in Solutions :
          /\ seen_at[s] = history.iteration_count
          /\ \E i \in 1 .. Len(history.all_solutions) :
                /\ history.all_solutions[i].scored_solution.solution = s
                /\ history.all_solutions[i].iteration = history.iteration_count - 1
    /\ Cardinality(history.all_solutions_lookup) = 2

\* C27: when seen_solution(s) is called while s.solution is in the lookup set
\* (its entry not yet of the age that expires), the call pushes no entry and
\* the entry of s keeps its position and its iteration stamp.
C27_SeenAgainKeepsEntry ==
    [][\A s \in Solutions :
          \A i \in 1 .. Len(history.all_solutions) :
              (/\ last_call'.op = "seen_solution"
               /\ history'.iteration_count = history.iteration_count + 1
               /\ seen_at'[s] = history'.iteration_count
               /\ s \in history.all_solutions_lookup
               /\ history.all_solutions[i].scored_solution.solution = s
               /\ history.all_solutions[i].iteration
                      + history.all_solution_iteration_expiry > history'.iteration_count)
              => /\ Len(history'.all_solutions) <= Len(history.all_solutions)
                 /\ i <= Len(history'.all_solutions)
                 /\ history'.all_solutions[i] = history.all_solutions[i]]_vars

\* a step of the descent that went on to enumerate neighbours: the internal
\* History took one seen_solution call and current was not the best score
NeighborsEvaluated ==
    /\ pc = "ls"
    /\ local_search'.history.iteration_count = local_search.history.iteration_count + 1
    /\ ~is_best(execute.current_solution.score)

\* C28: at every LS step current is in the internal History before the
\* neighbours are enumerated; the evaluated neighbourhood has at most
\* window_size scored members, none of them tabu at that step and none equal
\* to current.solution, and the step moves to no such neighbour.
C28_NeighborhoodIsWindowedAndNotTabu ==
    [][(pc = "ls" /\ local_search'.history.iteration_count
                        = local_search.history.iteration_count + 1)
       => /\ is_solution_tabu(local_search'.history, execute.current_solution.solution)
          /\ NeighborsEvaluated =>
               /\ Len(execute'.neighborhood) <= local_search.window_size
               /\ \A i \in 1 .. Len(execute'.neighborhood) :
                     /\ ~is_solution_tabu(local_search'.history,
                                          execute'.neighborhood[i].solution)
                     /\ execute'.neighborhood[i].solution
                            # execute.current_solution.solution
                     /\ execute'.neighborhood[i]
                            = get_scored_solution(execute'.neighborhood[i].solution)
               /\ execute'.current_solution.solution # execute.current_solution.solution
                     => execute'.current_solution \in SeqRange(execute'.neighborhood)]_vars

\* a full window was evaluated while two solutions were tabu
C28_Witness ==
    /\ pc \in {"ls", "ls_done"}
    /\ Len(execute.neighborhood) = MaxWindow
    /\ local_search.window_size = MaxWindow
    /\ execute.recorded >= 2
    /\ Cardinality(local_search.history.all_solutions_lookup) >= 2

\* C29: at every LS step with a non-empty neighbourhood the member compared
\* against current and moved to has the minimum score of the neighbourhood,
\* and among the members of that score it is the least solution.
C29_MovesToLeastNeighbor ==
    [][(NeighborsEvaluated /\ execute'.neighborhood # <<>>)
       => \E n \in SeqRange(execute'.neighborhood) :
             /\ \A m \in SeqRange(execute'.neighborhood) :
                   \/ n.score < m.score
                   \/ n.score = m.score /\ n.solution <= m.solution
             /\ execute'.current_solution \in {n, execute.current_solution}
             /\ execute'.current_iteration = execute.current_iteration + 1
                   => execute'.current_solution = n
             /\ n.score < execute.current_solution.score
                   => execute'.best_solution = n]_vars

\* the step moved to the lesser of two neighbours of one score
C29_Witness ==
    /\ pc \in {"ls", "ls_done"}
    /\ Len(execute.neighborhood) = 2
    /\ execute.neighborhood[1].score = execute.neighborhood[2].score
    /\ execute.neighborhood[1].solution < execute.neighborhood[2].solution
    /\ execute.current_solution = execute.neighborhood[1]
    /\ execute.current_iteration >= 1

\* C30: within one execute call a step whose least neighbour is strictly better
\* than current sets no_improvement_for to 0 and moves; any other step with a
\* non-empty neighbourhood adds 1, and either the count has reached
\* allow_no_improvement_for and the descent stops without moving, or current
\* is set to the neighbour although it is equal or worse.
C30_NoImprovementCounter ==
    [][(NeighborsEvaluated /\ execute'.neighborhood # <<>>)
       => LET n == Head(execute'.neighborhood)
          IN IF n.score < execute.current_solution.score
             THEN /\ execute'.no_improvement_for = 0
                  /\ execute'.current_solution = n
                  /\ execute'.current_iteration = execute.current_iteration + 1
             ELSE /\ execute'.no_improvement_for = execute.no_improvement_for + 1
                  /\ IF execute'.no_improvement_for >= execute.allow_no_improvement_for
                     THEN /\ pc' = "ls_done"
                          /\ execute'.current_solution = execute.current_solution
                          /\ execute'.result = {execute.best_solution}
                     ELSE /\ execute'.current_solution = n
                          /\ execute'.current_iteration
                                 = execute.current_iteration + 1]_vars

\* a step that did not improve was followed by one that did: the count is
\* back at 0 after two moves
C30_Witness ==
    /\ pc \in {"ls", "ls_done"}
    /\ execute.current_iteration = 2
    /\ execute.no_improvement_for = 0
    /\ Cardinality(execute.visited) = 3
    /\ \E v \in execute.visited :
          /\ v \notin {get_scored_solution(execute.start), execute.current_solution}
          /\ v.score >= get_scored_solution(execute.start).score
          /\ execute.current_solution.score < v.score

\* C22: a round of the ILS updates the History the ILS owns through both
\* mutators: once a round whose descent took a step has run to its end, the
\* best set has been written by local_search_chose_solution and the deque
\* and the iteration counter by seen_solution.
C22_RoundUsesBothMutators ==
    (/\ pc = "idle"
     /\ last_call = [op |-> "execute_round", flag |-> FALSE]
     /\ local_search.history.iteration_count > 0)
        => /\ history.best_solutions # {}
           /\ history.iteration_count > 0
           /\ history.all_solutions # <<>>

\* C26: between execute_round calls `current` is the value the last choose
\* call returned, or the scored initial solution when choose was never
\* called: a call that returns early leaves it alone, a round that ends
\* assigns it from choose, and before that assignment only the periodic
\* restart writes it, inside the round.
C26_CurrentIsLastChoice ==
    /\ []((pc = "idle" /\ ls_returned = {}) => current = initial_solution)
    /\ [][/\ (pc = "idle" /\ pc' = "idle") => current' = current
          /\ (pc = "idle" /\ pc' # "idle" /\ current' # current)
                => iteration' % RestartInterval = 0
          /\ (pc # "idle" /\ pc' # "idle") => current' = current
          /\ (pc = "ls_done" /\ pc' = "idle")
                => \E new \in execute.result :
                      \E maybe_random_best_solution
                              \in get_random_best_solution(history') :
                          current' \in AcceptanceCriterion_choose(
                                           current, new, maybe_random_best_solution)]_vars

\* the round of the restart interval ran to its end, choose included
C26_Witness ==
    /\ pc = "idle"
    /\ iteration = RestartInterval
    /\ last_call = [op |-> "execute_round", flag |-> FALSE]
    /\ current # initial_solution

\* C31: within one descent, with all_solution_iteration_expiry >= 2 and
\* all_solutions_capacity >= 2, the second move never returns to the solution
\* the descent held two steps earlier (no cycle A -> B -> A).
C31_NoTwoStepCycle ==
    (/\ pc \in {"ls", "ls_done"}
     /\ execute.current_iteration = 2
     /\ local_search.history.all_solution_iteration_expiry >= 2
     /\ local_search.history.all_solutions_capacity >= 2)
        => execute.current_solution.solution # execute.start

\* C36: once the best set holds best_solutions_capacity members it holds that
\* many after every later local_search_chose_solution call, and a call with a
\* scored solution that is already a member leaves the set as it was.
C36_FullBestSetStaysFull ==
    [][(/\ last_call'.op = "local_search_chose_solution"
        /\ Cardinality(history.best_solutions) = history.best_solutions_capacity)
       => /\ Cardinality(history'.best_solutions) = history.best_solutions_capacity
          /\ history'.best_solutions # history.best_solutions
                => \E c \in history'.best_solutions : c \notin history.best_solutions]_vars

\* C37: in a descent called with allow_no_improvement_for <= 1 every move
\* strictly lowers the score, the returned solution is the final current and
\* has the least score of all visited solutions, and when the first
\* neighbourhood holds a member strictly better than the start the returned
\* score is strictly below the score of the start.
C37_StrictDescent ==
    /\ []((pc \in {"ls", "ls_done"} /\ execute.allow_no_improvement_for <= 1)
            => /\ \A v \in execute.visited :
                      execute.current_solution.score <= v.score
               /\ execute.result \in {{}, {execute.current_solution}}
               /\ execute.current_iteration >= 1
                      => execute.current_solution.score
                             < get_scored_solution(execute.start).score)
    /\ [][(pc = "ls" /\ execute.allow_no_improvement_for <= 1)
            => /\ execute'.current_solution # execute.current_solution
                      => execute'.current_solution.score < execute.current_solution.score
               /\ (/\ NeighborsEvaluated
                   /\ execute.current_iteration = 0
                   /\ \E m \in SeqRange(execute'.neighborhood) :
                          m.score < execute.current_solution.score)
                      => execute'.current_iteration = 1]_vars

\* a descent with allow_no_improvement_for 1 made two moves and returned
C37_Witness ==
    /\ pc = "ls_done"
    /\ execute.allow_no_improvement_for = 1
    /\ execute.current_iteration = 2
    /\ Cardinality(execute.visited) = 3
    /\ execute.result = {execute.current_solution}

\* C35: the History inside LocalSearch is never reset between execute calls:
\* every pass of the loop adds one to its iteration_count and nothing else
\* changes it, so the count is the number of steps of all descents so far and
\* the tabu entries of one descent are there at the start of the next; its
\* best set stays empty.
C35_InternalHistoryPersists ==
    /\ [](local_search.history.best_solutions = {})
    /\ [][IF pc = "ls"
          THEN local_search'.history.iteration_count
                   = local_search.history.iteration_count + 1
          ELSE local_search'.history = local_search.history]_vars

\* a second descent is about to take its first step with an entry of the
\* first descent still tabu
C35_Witness ==
    /\ pc = "ls"
    /\ last_call.op = "execute"
    /\ execute.recorded = 0
    /\ local_search.history.iteration_count >= 2
    /\ local_search.history.all_solutions_lookup # {}

\* C34: every execute_round call adds exactly 1 to the iteration counter,
\* terminal rounds and calls after is_finished included; so while the calls
\* are those of the loop `while !is_finished() { execute_round() }` the loop
\* ends after exactly max_iterations calls, and get_iteration_info has
\* current <= total throughout and current = total at the exit.
C34_OneIterationPerRound ==
    /\ [][rounds_called' = rounds_called + 1 => iteration' = iteration + 1]_vars
    /\ [](rounds_called <= max_iterations
            => /\ get_iteration_info.current <= get_iteration_info.total
               /\ is_finished <=> rounds_called = max_iterations
               /\ is_finished => get_iteration_info.current = get_iteration_info.total)

\* the loop ran max_iterations rounds, the last of them a terminal one
C34_Witness ==
    /\ pc = "idle"
    /\ max_iterations = MaxIlsIterations
    /\ rounds_called = max_iterations
    /\ is_finished
    /\ last_call = [op |-> "execute_round", flag |-> TRUE]
    /\ ls_returned # {}

\* C33: a non-terminal execute_round whose incremented iteration is a positive
\* multiple of RestartInterval draws a fresh initial solution and makes its
\* scored value `current` before the perturbation draws; in every other round
\* the perturbation is handed the `current` the previous round accepted.
C33_PeriodicRestart ==
    [][(pc = "idle" /\ pc' # "idle")
       => IF iteration' > 0 /\ iteration' % RestartInterval = 0
          THEN /\ rng' = rng + 2
               /\ current' = get_scored_solution(current'.solution)
          ELSE /\ rng' = rng + 1
               /\ current' = current]_vars

\* in the round of the restart interval `current` is a solution that neither
\* the constructor nor any descent had produced
C33_Witness ==
    /\ pc # "idle"
    /\ iteration = RestartInterval
    /\ current \notin ls_returned \cup {initial_solution}

\* C32: a non-terminal execute_round goes in this order: the perturbation
\* runs on `current` with the History not yet touched by the round,
\* LocalSearch::execute runs on the perturbed solution with
\* max_allow_no_improvement_for, its result `new` is admitted by
\* local_search_chose_solution, and only then acceptance chooses, from
\* `current`, `new` and the History that already holds the admission.
C32_RoundOrder ==
    [][/\ (pc = "idle" /\ pc' # "idle")
            => /\ history' = history
               /\ execute'.allow_no_improvement_for = max_allow_no_improvement_for
               /\ execute'.current_solution = get_scored_solution(execute'.start)
       /\ pc = "ls" => history' = history /\ current' = current
       /\ (pc = "ls_done" /\ pc' = "idle")
            => \E new \in execute.result :
                  /\ history' = local_search_chose_solution(history, new)
                  /\ current' \in {current, new} \cup history'.best_solutions]_vars

\* the first round ended with acceptance choosing from a History that was
\* empty before the round and holds `new` after it
C32_Witness ==
    /\ pc = "idle"
    /\ rounds_called = 1
    /\ last_call = [op |-> "execute_round", flag |-> FALSE]
    /\ local_search.history.iteration_count >= 1
    /\ history.best_solutions = {current}
    /\ current # initial_solution

\* two queens of different columns attack each other: same row or same diagonal
QueensAttack(rows, col1, col2) ==
    \/ rows[col1] = rows[col2]
    \/ rows[col1] - rows[col2] = col1 - col2
    \/ rows[col1] - rows[col2] = col2 - col1

\* C38: for every N-Queens board get_col_scores has one entry per column, the
\* number of other queens that attack the queen of that column; the score is
\* the sum of the entries, and is_best holds exactly when no two queens
\* attack each other.
C38_ColumnScoresCountAttackers ==
    example.op = "scored"
        => LET rows == example.solution
               columns == 1 .. Len(rows)
           IN /\ Len(example.col_scores) = Len(rows)
              /\ \A col \in columns :
                    example.col_scores[col] =
                        Cardinality({other \in columns \ {col} :
                                        QueensAttack(rows, col, other)})
              /\ example.scored.score = SumSeq(example.col_scores)
              /\ example.scored.solution = rows
              /\ NQueensScore_is_best(example.scored.score)
                    <=> \A col, other \in columns :
                            col # other => ~QueensAttack(rows, col, other)

\* a board of the largest size was scored and some queen of it is attacked on
\* a diagonal and by no queen of its row
C38_Witness ==
    /\ example.op = "scored"
    /\ Len(example.solution) = MaxBoardSize
    /\ \E col \in 1 .. MaxBoardSize :
          /\ example.col_scores[col] >= 2
          /\ \A other \in (1 .. MaxBoardSize) \ {col} :
                example.solution[other] # example.solution[col]

\* C40: the solution generate_initial_solution returns has exactly one
\* date_to_employee entry per day of the inclusive range [start_date,
\* end_date], so every index of the vector is a day that
\* get_days_to_employees reports.
C40_OneEntryPerDay ==
    example.op = "schedule"
        => LET solution == example.solution
           IN /\ Len(solution.date_to_employee)
                     = solution.end_date - solution.start_date + 1
              /\ Len(example.days_to_employees) = Len(solution.date_to_employee)

\* the number of positions in which two vectors of one length differ
PositionsChanged(before, after) ==
    Cardinality({i \in 1 .. Len(before) : before[i] # after[i]})

\* C39: the solution a domain perturbation returns differs from
\* current.solution in at most max(1, n/20) of its n positions when `current`
\* is in the best set of the History and in at most max(1, n/2) otherwise, and
\* it equals current.solution under the strategy DoNothing.
C39_KickFromBestIsSmaller ==
    example.op = "perturbed"
        => LET n == Len(current.solution)
               limit == IF current \in history.best_solutions
                        THEN n \div KickFromBestDivisor
                        ELSE n \div EscapeDivisor
           IN /\ Len(example.new_solution) = n
              /\ PositionsChanged(current.solution, example.new_solution)
                     <= (IF limit < 1 THEN 1 ELSE limit)
              /\ example.strategy = "DoNothing"
                     => example.new_solution = current.solution

\* a kick from a best solution changed two positions of a long vector
C39_Witness ==
    /\ example.op = "perturbed"
    /\ current \in history.best_solutions
    /\ example.strategy = "ChangeDaysSubsetRandomly"
    /\ PositionsChanged(current.solution, example.new_solution) = 2

====
